---- MODULE Spec2Model ----
(***************************************************************************)
(* swagger-smoke: the test-case derivation and execution engine.           *)
(*                                                                         *)
(* Two engines are modelled side by side, selected by `variant`:           *)
(*   "lib"   - src/lib/index.js        (one request per endpoint method)   *)
(*   "smoke" - src/unnamed/part_001    (one request per declared response) *)
(* Operators of src/lib/index.js that share a name with an operator of     *)
(* src/unnamed/part_001 carry the suffix _lib.                             *)
(***************************************************************************)
EXTENDS Integers, Sequences, FiniteSets, TLC

(***************************************************************************)
(* Bounds of the model.                                                    *)
(***************************************************************************)
\* runTests invocations on one engine instance
MaxRuns == 2
\* responses a method declares when the planner is applied on its own
MaxResponses == 3
\* 'unhandledRejection' events the process signals
MaxRejections == 1

(***************************************************************************)
(* JavaScript values.  Every value is a record of one shape so that any    *)
(* two values can be compared.                                             *)
(***************************************************************************)
Undefined == [kind |-> "undefined", tag |-> "", n |-> 0]
\* a literal piece of text
Lit(s) == [kind |-> "lit", tag |-> s, n |-> 0]
\* the text `{name}` of a path template
Placeholder(name) == [kind |-> "placeholder", tag |-> name, n |-> 0]
\* the entry of the static dictionary for `key`
Static(key) == [kind |-> "static", tag |-> key, n |-> 0]
\* what the n-th invocation of the parameter handler of `key` returns
Handled(key, n) == [kind |-> "handler", tag |-> key, n |-> n]
\* a value json-schema-faker generates for the schema {type}
Fake(type) == [kind |-> "fake", tag |-> type, n |-> 0]
\* what the n-th invocation of a security handler returns
SecurityResult(returns, n) == [kind |-> returns, tag |-> "security", n |-> n]

\* String(value), as template literals and String.prototype.replace apply it
String(value) ==
    IF value = Undefined THEN Lit("undefined") ELSE value

(***************************************************************************)
(* Object.getOwnPropertyNames: integer-like keys first, in ascending       *)
(* numeric order, then the other keys in creation order.                   *)
(***************************************************************************)
NaN == -1

parseInt(s) ==
    CASE s = "200" -> 200
      [] s = "204" -> 204
      [] s = "400" -> 400
      [] s = "404" -> 404
      [] s = "500" -> 500
      [] OTHER -> NaN

\* Number.prototype.toString on the codes parseInt produced
toString(code) ==
    CASE code = 200 -> "200"
      [] code = 204 -> "204"
      [] code = 400 -> "400"
      [] code = 404 -> "404"
      [] code = 500 -> "500"
      [] OTHER -> "NaN"

\* a < b on JavaScript numbers: every comparison with NaN is false
LessThan(a, b) == a # NaN /\ b # NaN /\ a < b

\* mutant: the integer-like keys come in descending order
RECURSIVE Ascending_descending(_)
Ascending_descending(S) ==
    IF S = {} THEN <<>>
    ELSE LET most == CHOOSE x \in S : \A y \in S : parseInt(x) >= parseInt(y)
         IN  <<most>> \o Ascending_descending(S \ {most})

RECURSIVE Ascending(_)
Ascending(S) ==
    IF S = {} THEN <<>>
    ELSE LET least == CHOOSE x \in S : \A y \in S : parseInt(x) <= parseInt(y)
         IN  <<least>> \o Ascending(S \ {least})

IsIntegerKey(s) == parseInt(s) # NaN

KeysOf(entries) == [i \in 1..Len(entries) |-> entries[i].key]

\* the own property names of an object given by its entries in creation order
getOwnPropertyNames(entries) ==
    LET keys == KeysOf(entries)
        ints == {keys[i] : i \in {j \in 1..Len(keys) : IsIntegerKey(keys[j])}}
    IN  Ascending(ints) \o SelectSeq(keys, LAMBDA k : ~IsIntegerKey(k))

HasKey(entries, key) == \E i \in 1..Len(entries) : entries[i].key = key

\* object[key]
Lookup(entries, key) ==
    IF HasKey(entries, key)
    THEN entries[CHOOSE i \in 1..Len(entries) : entries[i].key = key].value
    ELSE Undefined

(***************************************************************************)
(* Contracts (the parsed Swagger definitions handed to the constructor).   *)
(* An object is a sequence of [key, value] entries in declared order.      *)
(* A body schema is given by the instance json-schema-faker generates for  *)
(* it: a set of [path, value] leaves.                                      *)
(*                                                                         *)
(* A response schema is the set of its sub-schemas, each a node named by   *)
(* its path of keys from the root: <<>> is the root, <<"properties", "a">> *)
(* the schema of property a, <<"items">> the schema of the elements, and   *)
(* <<"allOf", "0">> the first element of the array under allOf.            *)
(***************************************************************************)
\* metadata.schema is undefined
NoSchema == {}

\* a sub-schema without `properties`
Node(path) ==
    [path |-> path, hasProperties |-> FALSE, properties |-> <<>>,
     hasRequired |-> FALSE, required |-> <<>>]

\* a sub-schema {properties: {...}} without `required`
ObjectNode(path, properties) ==
    [path |-> path, hasProperties |-> TRUE, properties |-> properties,
     hasRequired |-> FALSE, required |-> <<>>]

\* a sub-schema {properties: {...}, required: [...]}
RequiringNode(path, properties, required) ==
    [path |-> path, hasProperties |-> TRUE, properties |-> properties,
     hasRequired |-> TRUE, required |-> required]

\* {properties: {id, tags: {type: array, items: {properties: {label}}}}}
WidgetSchema ==
    {ObjectNode(<<>>, <<"id", "tags">>),
     Node(<<"properties", "id">>),
     Node(<<"properties", "tags">>),
     ObjectNode(<<"properties", "tags", "items">>, <<"label">>)}

\* {properties: {name, age, owner: {properties: {id}}}, required: [name]}
PersonSchema ==
    {RequiringNode(<<>>, <<"name", "age", "owner">>, <<"name">>),
     ObjectNode(<<"properties", "owner">>, <<"id">>)}

\* {type: string}
BoomSchema == {Node(<<>>)}

\* {allOf: [{properties: {code}}, {properties: {message}}]}
ErrorSchema ==
    {Node(<<>>),
     ObjectNode(<<"allOf", "0">>, <<"code">>),
     ObjectNode(<<"allOf", "1">>, <<"message">>)}

Param(name, where, type) ==
    [name |-> name, in |-> where, type |-> type, schema |-> {}]

BodyParam(leaves) ==
    [name |-> "body", in |-> "body", type |-> "", schema |-> leaves]

Response(key, schema) == [key |-> key, value |-> [schema |-> schema]]

Method(name, parameters, responses, security) ==
    [key |-> name,
     value |-> [parameters |-> parameters, responses |-> responses,
                security |-> security]]

WidgetTemplate == <<Lit("/widgets/"), Placeholder("id")>>
PeopleTemplate == <<Lit("/people")>>
PingTemplate == <<Lit("/ping")>>
BoomTemplate == <<Lit("/boom")>>

PersonBody ==
    {[path |-> <<"name">>, value |-> Fake("string")],
     [path |-> <<"age">>, value |-> Fake("integer")],
     [path |-> <<"owner", "id">>, value |-> Fake("string")]}

\* GET /widgets/{id} (200 with a schema, 404) behind token_auth, and
\* POST /people with an integer query parameter and a body (400, 200)
WidgetsApi ==
    [basePath |-> Lit("/v1"),
     paths |-> <<
       [key |-> WidgetTemplate,
        value |-> <<
          Method("get",
                 <<Param("id", "path", "string")>>,
                 <<Response("200", WidgetSchema), Response("404", NoSchema)>>,
                 << <<"token_auth">> >>) >>],
       [key |-> PeopleTemplate,
        value |-> <<
          Method("post",
                 <<Param("age", "query", "integer"), BodyParam(PersonBody)>>,
                 <<Response("400", NoSchema), Response("200", PersonSchema)>>,
                 <<>>) >>] >>]

\* GET /ping declares no response; GET /boom declares 500, 200 and default;
\* DELETE /boom declares 204 and lists two security requirements
MiscApi ==
    [basePath |-> Lit(""),
     paths |-> <<
       [key |-> PingTemplate,
        value |-> << Method("get", <<>>, <<>>, <<>>) >>],
       [key |-> BoomTemplate,
        value |-> <<
          Method("get",
                 <<Param("id", "query", "")>>,
                 <<Response("500", NoSchema), Response("200", BoomSchema),
                   Response("default", ErrorSchema)>>,
                 <<>>),
          Method("delete",
                 <<>>,
                 <<Response("204", NoSchema)>>,
                 << <<"api_key">>, <<"token_auth">> >>) >>] >>]

Contracts == {WidgetsApi, MiscApi}

(***************************************************************************)
(* Options.  successHttpCode 0 stands for "not provided".                  *)
(***************************************************************************)
DefaultOptions ==
    [disable |-> {}, successCases |-> FALSE,
     forceAuthorizationHeader |-> FALSE, setParamsInBody |-> FALSE,
     successHttpCode |-> 0, notRequiredPropertiesValidation |-> FALSE]

OptionsCatalog ==
    {DefaultOptions,
     [DefaultOptions EXCEPT !.disable = {<<"get", WidgetTemplate>>,
                                         <<"get", BoomTemplate>>}],
     [DefaultOptions EXCEPT !.successCases = TRUE],
     [DefaultOptions EXCEPT !.forceAuthorizationHeader = TRUE,
                            !.setParamsInBody = TRUE],
     [DefaultOptions EXCEPT !.successHttpCode = 204],
     [DefaultOptions EXCEPT !.notRequiredPropertiesValidation = TRUE]}

(***************************************************************************)
(* What the caller registers before the first run: a sequence of calls of  *)
(* params() and security().                                                *)
(***************************************************************************)
ParamsDict(keys) == [op |-> "paramsDict", key |-> "", keys |-> keys, returns |-> ""]
ParamsHandler(key) == [op |-> "params", key |-> key, keys |-> <<>>, returns |-> ""]
Security(key, returns) == [op |-> "security", key |-> key, keys |-> <<>>, returns |-> returns]

Scripts ==
    {<<>>,
     <<Security("token_auth", "string")>>,
     <<ParamsDict(<<"id", "name">>), Security("api_key", "map"),
       Security("token_auth", "string")>>,
     <<ParamsHandler("id"), ParamsDict(<<"id", "age">>)>>,
     <<ParamsHandler("age"), ParamsHandler("id"),
       Security("token_auth", "number")>>,
     <<ParamsHandler("id"), Security("token_auth", "string")>>}

(***************************************************************************)
(* State.                                                                  *)
(***************************************************************************)
VARIABLES
    variant,            \* "lib" (src/lib/index.js) or "smoke" (src/unnamed/part_001)
    listenerChecked,    \* whether process.on throws on a listener that is no function
    apiDefinitions,     \* this._apiDefinitions
    options,            \* this.options
    script,             \* the registration calls the caller still has to make
    _security,          \* this._security: [key, value] entries in insertion order
    _requestParams,     \* this._requestParams: keys in insertion order
    _staticParams,      \* this._staticParams: Undefined or [keys |-> <<...>>]
    _securityKeys,      \* this._securityKeys
    _requestParamsKeys, \* this._requestParamsKeys
    _testFails,         \* this._testFails
    _testPasses,        \* this._testPasses
    _globalReject,      \* module variable: 0 (undefined) or the serial of a case
    pc,                 \* where runTests stands
    runNo,              \* runTests invocations so far
    pos,                \* [i, c]: endpoint method and test case in progress
    testCases,          \* the test cases of the method in progress
    request,            \* the request in flight, or NoRequest
    dispatched,         \* every request handed to the transport, in order
    calls,              \* every handler invocation, in order
    skipped,            \* every `method:template` logged as skipped, in order
    returned,           \* how each finished runTests settled, in order
    outcome,            \* how the transport settled the latest request
    listeners,          \* the 'uncaughtException' listeners of the process
    orphans,            \* requests still in flight whose case was rejected
    rejections,         \* 'unhandledRejection' events signalled so far
    probe               \* input and output of a function applied on its own

vars ==
    <<variant, listenerChecked, apiDefinitions, options, script, _security,
      _requestParams, _staticParams, _securityKeys, _requestParamsKeys,
      _testFails, _testPasses, _globalReject, pc, runNo, pos, testCases,
      request, dispatched, calls, skipped, returned, outcome, listeners,
      orphans, rejections, probe>>

NoRequest == [serial |-> 0]
NoProbe == [op |-> "none"]

DEFAULT_SUCCESS_CODE == 200

(***************************************************************************)
(* Test Case Planner.                                                      *)
(***************************************************************************)
\* mutant: the two bounds of the filter are swapped
StatusLimit_swapped == IF options.successCases THEN 500 ELSE 300

\* the bound of the filter of _getGetMethodTestCases
StatusLimit == IF options.successCases THEN 300 ELSE 500

\* the code of the default test case
DefaultCode ==
    IF options.successHttpCode # 0 THEN options.successHttpCode
    ELSE DEFAULT_SUCCESS_CODE

ParsedCodes(responses) ==
    LET names == getOwnPropertyNames(responses)
    IN  [i \in 1..Len(names) |-> parseInt(names[i])]

RetainedCodes(responses) ==
    SelectSeq(ParsedCodes(responses), LAMBDA code : LessThan(code, StatusLimit))

\* lodash.isObject(key) on a property name: a string is no object
isObject_key(key) == FALSE

\* lodash.isArray(schema[key]): the sub-schemas under `key` are the elements
\* of an array
IsIndex(step) == step \in {"0", "1"}

\* the sub-schemas the callback of lodash.forIn recurses into from `at`: the
\* objects inside an array-valued key, and schema[key] when isObject(key)
RecursedFrom(schema, at) ==
    {node.path : node \in {n \in schema :
        /\ Len(n.path) > Len(at)
        /\ SubSeq(n.path, 1, Len(at)) = at
        /\ \/ Len(n.path) = Len(at) + 2 /\ IsIndex(n.path[Len(at) + 2])
           \/ Len(n.path) = Len(at) + 1 /\ isObject_key(n.path[Len(at) + 1])}}

\* schema.required = Object.getOwnPropertyNames(schema.properties)
RequireAll(node) ==
    IF node.hasProperties
    THEN [node EXCEPT !.hasRequired = TRUE, !.required = node.properties]
    ELSE node

RECURSIVE ForceEach(_, _)
RECURSIVE _forceSchemaPropertiesAsRequired(_, _)
\* the sub-schema at `at` is rewritten, then those the callback recurses into
_forceSchemaPropertiesAsRequired(schema, at) ==
    LET rewritten == {IF node.path = at THEN RequireAll(node) ELSE node :
                        node \in schema}
    IN  ForceEach(rewritten, RecursedFrom(schema, at))

ForceEach(schema, paths) ==
    IF paths = {} THEN schema
    ELSE LET at == CHOOSE p \in paths : TRUE
         IN  ForceEach(_forceSchemaPropertiesAsRequired(schema, at),
                       paths \ {at})

\* responses[statusCode.toString()] after the rewrite the option asks for
CaseMetadata(responses, code) ==
    LET metadata == Lookup(responses, toString(code))
    IN  IF options.notRequiredPropertiesValidation
        THEN [schema |-> _forceSchemaPropertiesAsRequired(metadata.schema, <<>>)]
        ELSE metadata

_getGetMethodTestCases(responses) ==
    LET kept == RetainedCodes(responses)
        cases == [i \in 1..Len(kept) |->
                    [code |-> kept[i],
                     metadata |-> CaseMetadata(responses, kept[i])]]
    IN  IF Len(cases) > 0 THEN cases
        ELSE <<[code |-> DefaultCode, metadata |-> Undefined]>>

\* src/lib/index.js: the single case of a method; code NaN stands for the
\* undefined that find() yields when no declared code is below 300
_getSuccessResponseMetadata(responses) ==
    LET codes == ParsedCodes(responses)
        below == SelectSeq(codes, LAMBDA code : LessThan(code, 300))
        code  == IF Len(codes) = 0 THEN DefaultCode
                 ELSE IF Len(below) > 0 THEN below[1] ELSE NaN
    IN  [code |-> code, metadata |-> Lookup(responses, toString(code))]

(***************************************************************************)
(* Parameter Resolver.  A resolution yields the value and the log of       *)
(* handler invocations extended by the invocation it made, if any.         *)
(***************************************************************************)
Has(keys, key) == \E i \in 1..Len(keys) : keys[i] = key

Invocations(log, kind, key) ==
    Cardinality({i \in 1..Len(log) : log[i].kind = kind /\ log[i].key = key})

\* mutant: a handler that was invoked before is not invoked again
_call_cached(kind, key, args, log) ==
    IF Invocations(log, kind, key) > 0 THEN log
    ELSE Append(log, [kind |-> kind, key |-> key, args |-> args, n |-> 1])

\* _call(fn, params) for the handler registered as (kind, key)
_call(kind, key, args, log) ==
    Append(log, [kind |-> kind, key |-> key, args |-> args,
                 n |-> Invocations(log, kind, key) + 1])

\* mutant: the switch lacks the case 'string'
InvertedType_noStringCase(type) == "string"

\* the switch of _generateErrorParam
InvertedType(type) ==
    CASE type \in {"integer", "number", "boolean", "array", "object"} -> "string"
      [] type = "string" -> "integer"
      [] OTHER -> "string"

\* the type of the value _generateErrorParam generates
GeneratedType(type, statusCode) ==
    IF statusCode = 400 THEN InvertedType(type) ELSE type

\* mutant: a value is generated for client-error cases only
_generateErrorParam_clientErrorOnly(type, statusCode) ==
    IF type # "" /\ statusCode >= 400
    THEN Fake(IF statusCode = 400 THEN InvertedType(type) ELSE type)
    ELSE Undefined

_generateErrorParam(type, statusCode) ==
    IF type # "" THEN Fake(GeneratedType(type, statusCode)) ELSE Undefined

HasStatic(key) ==
    _staticParams # Undefined /\ Has(_staticParams.keys, key)

\* mutant: the static dictionary is consulted before the handlers
getParamValue_staticFirst(key, type, statusCode, args, log) ==
    IF HasStatic(key)
    THEN [value |-> Static(key), calls |-> log]
    ELSE IF Has(_requestParams, key)
    THEN [value |-> Handled(key, Invocations(log, "param", key) + 1),
          calls |-> _call("param", key, args, log)]
    ELSE IF type # ""
    THEN [value |-> _generateErrorParam(type, statusCode), calls |-> log]
    ELSE [value |-> Undefined, calls |-> log]

getParamValue(key, type, statusCode, args, log) ==
    IF Has(_requestParams, key)
    THEN [value |-> Handled(key, Invocations(log, "param", key) + 1),
          calls |-> _call("param", key, args, log)]
    ELSE IF HasStatic(key)
    THEN [value |-> Static(key), calls |-> log]
    ELSE IF type # ""
    THEN [value |-> _generateErrorParam(type, statusCode),
          calls |-> log]
    ELSE [value |-> Undefined, calls |-> log]

\* src/lib/index.js
getParamValue_lib(key, args, log) ==
    IF Has(_requestParams, key)
    THEN [value |-> Handled(key, Invocations(log, "param", key) + 1),
          calls |-> _call("param", key, args, log)]
    ELSE IF HasStatic(key)
    THEN [value |-> Static(key), calls |-> log]
    ELSE [value |-> Undefined, calls |-> log]

(***************************************************************************)
(* URL building.  A template is a sequence of pieces of text.              *)
(***************************************************************************)
True == [kind |-> "boolean", tag |-> "true", n |-> 0]
Null == [kind |-> "null", tag |-> "", n |-> 0]
Number(code) == [kind |-> "number", tag |-> "", n |-> code]

\* template.includes(text)
Includes(template, text) == \E i \in 1..Len(template) : template[i] = Lit(text)

\* template.replace(`{name}`, value): the first occurrence only
Replace(template, name, value) ==
    IF \E i \in 1..Len(template) : template[i] = Placeholder(name)
    THEN LET first == CHOOSE i \in 1..Len(template) :
                        /\ template[i] = Placeholder(name)
                        /\ \A j \in 1..(i - 1) : template[j] # Placeholder(name)
         IN  [template EXCEPT ![first] = String(value)]
    ELSE template

\* template += `${includes('?') ? '&' : '?'}${name}=${value}`
AppendQuery(template, name, value) ==
    template \o <<Lit(IF Includes(template, "?") THEN "&" ELSE "?"),
                  Lit(name), Lit("="), String(value)>>

\* the arguments a parameter handler gets while the URL is built
UrlHandlerArgs(template, method) == <<template, <<Lit(method)>>>>

RECURSIVE BuildUrlFrom(_, _, _, _, _, _)
BuildUrlFrom(i, template, method, params, statusCode, log) ==
    IF i > Len(params) THEN [url |-> template, calls |-> log]
    ELSE LET param == params[i]
             got == getParamValue(param.name, param.type, statusCode,
                                  UrlHandlerArgs(template, method), log)
         IN  CASE param.in = "body" ->
                    BuildUrlFrom(i + 1, template, method, params, statusCode, log)
               [] param.in = "path" ->
                    BuildUrlFrom(i + 1, Replace(template, param.name, got.value),
                                 method, params, statusCode, got.calls)
               [] param.in = "query" ->
                    BuildUrlFrom(i + 1, AppendQuery(template, param.name, got.value),
                                 method, params, statusCode, got.calls)
               [] OTHER ->
                    BuildUrlFrom(i + 1, template, method, params, statusCode,
                                 got.calls)

_buildUrl(template, method, params, testCaseStatusCode, log) ==
    BuildUrlFrom(1, template, method, params, testCaseStatusCode, log)

\* src/lib/index.js: the resolver is called for path and query parameters only
RECURSIVE BuildUrlFrom_lib(_, _, _, _, _)
BuildUrlFrom_lib(i, template, method, params, log) ==
    IF i > Len(params) THEN [url |-> template, calls |-> log]
    ELSE LET param == params[i]
             got == getParamValue_lib(param.name,
                                      UrlHandlerArgs(template, method), log)
         IN  CASE param.in = "path" ->
                    BuildUrlFrom_lib(i + 1, Replace(template, param.name, got.value),
                                     method, params, got.calls)
               [] param.in = "query" ->
                    BuildUrlFrom_lib(i + 1,
                                     AppendQuery(template, param.name, got.value),
                                     method, params, got.calls)
               [] OTHER ->
                    BuildUrlFrom_lib(i + 1, template, method, params, log)

_buildUrl_lib(template, method, params, log) ==
    BuildUrlFrom_lib(1, template, method, params, log)

(***************************************************************************)
(* Request body.  A body is a set of [path, value] leaves.                 *)
(***************************************************************************)
IsPrefix(p, q) == Len(p) <= Len(q) /\ SubSeq(q, 1, Len(p)) = p

\* jsonPath.paths(object, `$..key`): every location whose key is `key`
jsonPath_paths(object, key) ==
    {p \in UNION {{SubSeq(leaf.path, 1, k) : k \in 1..Len(leaf.path)} :
                    leaf \in object} : p[Len(p)] = key}

\* lodash.set(object, path, value)
lodash_set(object, path, value) ==
    {leaf \in object : ~IsPrefix(path, leaf.path) /\ ~IsPrefix(leaf.path, path)}
        \cup {[path |-> path, value |-> value]}

\* paramMatches.forEach(...): the matches are set outermost first
RECURSIVE SetEach(_, _, _)
SetEach(object, matches, value) ==
    IF matches = {} THEN object
    ELSE LET next == CHOOSE p \in matches : \A q \in matches : Len(p) <= Len(q)
         IN  SetEach(lodash_set(object, next, value), matches \ {next}, value)

\* the arguments a parameter handler gets while the body is overlaid
BodyHandlerArgs(template) == <<template, <<True>>>>

\* mutant: the value is resolved before the matches are counted
setObjectParamValue_alwaysResolves(object, key, template, testCaseStatusCode, log) ==
    LET got == getParamValue(key, "", testCaseStatusCode,
                             BodyHandlerArgs(template), log)
    IN  [object |-> SetEach(object, jsonPath_paths(object, key), got.value),
         calls |-> got.calls]

\* mutant: the value is resolved anew for every match
RECURSIVE ResolveEach(_, _, _, _, _, _)
ResolveEach(object, matches, key, template, testCaseStatusCode, log) ==
    IF matches = {} THEN [object |-> object, calls |-> log]
    ELSE LET next == CHOOSE p \in matches : \A q \in matches : Len(p) <= Len(q)
             got == getParamValue(key, "", testCaseStatusCode,
                                  BodyHandlerArgs(template), log)
         IN  ResolveEach(lodash_set(object, next, got.value), matches \ {next},
                         key, template, testCaseStatusCode, got.calls)

setObjectParamValue_perOccurrence(object, key, template, testCaseStatusCode, log) ==
    ResolveEach(object, jsonPath_paths(object, key), key, template,
                testCaseStatusCode, log)

setObjectParamValue(object, key, template, testCaseStatusCode, log) ==
    LET paramMatches == jsonPath_paths(object, key)
        got == getParamValue(key, "", testCaseStatusCode,
                             BodyHandlerArgs(template), log)
    IN  IF Cardinality(paramMatches) > 0
        THEN [object |-> SetEach(object, paramMatches, got.value),
              calls |-> got.calls]
        ELSE [object |-> object, calls |-> log]

setObjectParamValue_lib(object, key, template, log) ==
    LET paramMatches == jsonPath_paths(object, key)
        got == getParamValue_lib(key, BodyHandlerArgs(template), log)
    IN  IF Cardinality(paramMatches) > 0
        THEN [object |-> SetEach(object, paramMatches, got.value),
              calls |-> got.calls]
        ELSE [object |-> object, calls |-> log]

\* lodash.union(a, b): the distinct elements in order of first occurrence
RECURSIVE Distinct(_)
Distinct(keys) ==
    IF Len(keys) = 0 THEN <<>>
    ELSE LET front == Distinct(SubSeq(keys, 1, Len(keys) - 1))
             last  == keys[Len(keys)]
         IN  IF Has(front, last) THEN front ELSE Append(front, last)

lodash_union(a, b) == Distinct(a \o b)

RECURSIVE OverlayEach(_, _, _, _, _, _)
OverlayEach(i, keys, object, template, statusCode, log) ==
    IF i > Len(keys) THEN [object |-> object, calls |-> log]
    ELSE LET done == setObjectParamValue(object, keys[i], template, statusCode, log)
         IN  OverlayEach(i + 1, keys, done.object, template, statusCode, done.calls)

RECURSIVE OverlayEach_lib(_, _, _, _, _)
OverlayEach_lib(i, keys, object, template, log) ==
    IF i > Len(keys) THEN [object |-> object, calls |-> log]
    ELSE LET done == setObjectParamValue_lib(object, keys[i], template, log)
         IN  OverlayEach_lib(i + 1, keys, done.object, template, done.calls)

BodyParams(params) == SelectSeq(params, LAMBDA param : param.in = "body")

NoBody == {[path |-> <<>>, value |-> Undefined]}

\* threw: Object.getOwnPropertyNames(undefined) raises a TypeError
_buildRequestBody(template, params, testCaseStatusCode, log) ==
    IF Len(BodyParams(params)) = 0
    THEN [body |-> NoBody, calls |-> log, threw |-> FALSE]
    ELSE LET fakeData == BodyParams(params)[1].schema
         IN  IF ~options.setParamsInBody
             THEN [body |-> fakeData, calls |-> log, threw |-> FALSE]
             ELSE IF _staticParams = Undefined
             THEN [body |-> NoBody, calls |-> log, threw |-> TRUE]
             ELSE LET paramsKeys == lodash_union(_staticParams.keys,
                                                 _requestParamsKeys)
                      done == OverlayEach(1, paramsKeys, fakeData, template,
                                          testCaseStatusCode, log)
                  IN  [body |-> done.object, calls |-> done.calls,
                       threw |-> FALSE]

\* src/lib/index.js: the handler keys first, then the static dictionary's
_buildRequestBody_lib(template, params, log) ==
    IF Len(BodyParams(params)) = 0
    THEN [body |-> NoBody, calls |-> log, threw |-> FALSE]
    ELSE LET fakeData == BodyParams(params)[1].schema
         IN  IF ~options.setParamsInBody
             THEN [body |-> fakeData, calls |-> log, threw |-> FALSE]
             ELSE LET first == OverlayEach_lib(1, _requestParamsKeys, fakeData,
                                               template, log)
                  IN  IF _staticParams = Undefined
                      THEN [body |-> NoBody, calls |-> first.calls,
                            threw |-> TRUE]
                      ELSE LET done == OverlayEach_lib(1, _staticParams.keys,
                                                       first.object, template,
                                                       first.calls)
                           IN  [body |-> done.object, calls |-> done.calls,
                                threw |-> FALSE]

(***************************************************************************)
(* Security Resolver.  Headers are a set of [name, value] entries.         *)
(***************************************************************************)
\* headers[name] = value
SetHeader(headers, name, value) ==
    {h \in headers : h.name # name} \cup {[name |-> name, value |-> value]}

\* the own enumerable properties Object.assign copies from a handler result
AssignedNames(result) ==
    CASE result.kind = "map" -> {"Authorization", "X-Custom-Auth"}
      [] result.kind = "array" -> {"0"}
      [] OTHER -> {}

RECURSIVE AssignEach(_, _, _)
AssignEach(headers, names, result) ==
    IF names = {} THEN headers
    ELSE LET name == CHOOSE x \in names : TRUE
         IN  AssignEach(SetHeader(headers, name, result), names \ {name}, result)

\* lodash.isObject / lodash.isString on a handler result
isObject(result) == result.kind \in {"map", "array", "function"}
isString(result) == result.kind = "string"

\* this._securityKeys.find(key => securityMetadata.hasOwnProperty(key))
FindSecurityKey(securityMetadata) ==
    LET found == SelectSeq(_securityKeys, LAMBDA key : Has(securityMetadata, key))
    IN  IF Len(found) > 0 THEN found[1] ELSE ""

SecurityArgs(metadata, path, method, caseStatusCode) ==
    <<<<metadata>>, path, <<Lit(method)>>, <<Number(caseStatusCode)>>>>

\* the handler result of the middleware registered under `key`
InvokeSecurity(key, log) ==
    SecurityResult(Lookup(_security, key), Invocations(log, "security", key) + 1)

\* mutant: the provider registered last is taken
FirstMiddlewareKey_last == _security[Len(_security)].key

\* this._security.values().next().value
FirstMiddlewareKey == _security[1].key

_setSecurityHeader(securityMetadataCollection, headers, path, method, caseStatusCode, log) ==
    LET declared == Len(securityMetadataCollection) > 0
        key == IF declared THEN FindSecurityKey(securityMetadataCollection[1])
               ELSE FirstMiddlewareKey
        metadata == IF declared THEN Lit(key) ELSE Null
        securityHeader == InvokeSecurity(key, log)
        called == _call("security", key,
                        SecurityArgs(metadata, path, method, caseStatusCode), log)
    IN  IF Len(_security) = 0
        THEN [headers |-> headers, calls |-> log, threw |-> FALSE]
        ELSE IF ~declared /\ ~options.forceAuthorizationHeader
        THEN [headers |-> headers, calls |-> log, threw |-> FALSE]
        ELSE IF ~HasKey(_security, key)
        THEN [headers |-> headers, calls |-> log, threw |-> TRUE]
        ELSE IF isObject(securityHeader)
        THEN [headers |-> AssignEach(headers, AssignedNames(securityHeader),
                                     securityHeader),
              calls |-> called, threw |-> FALSE]
        ELSE IF isString(securityHeader)
        THEN [headers |-> SetHeader(headers, "Authorization", securityHeader),
              calls |-> called, threw |-> FALSE]
        ELSE [headers |-> headers, calls |-> called, threw |-> TRUE]

\* src/lib/index.js: the result is assigned to Authorization whatever it is
_setAuthorizationHeader(securityMetadataCollection, headers, path, method, log) ==
    LET declared == Len(securityMetadataCollection) > 0 /\ Len(_security) > 0
        key == IF declared THEN FindSecurityKey(securityMetadataCollection[1])
               ELSE FirstMiddlewareKey
        metadata == IF declared THEN Lit(key) ELSE Null
        called == _call("security", key,
                        <<<<metadata>>, path, <<Lit(method)>>>>, log)
    IN  IF ~declared /\ ~(options.forceAuthorizationHeader /\ Len(_security) > 0)
        THEN [headers |-> headers, calls |-> log, threw |-> FALSE]
        ELSE IF ~HasKey(_security, key)
        THEN [headers |-> headers, calls |-> log, threw |-> TRUE]
        ELSE [headers |-> SetHeader(headers, "Authorization",
                                    InvokeSecurity(key, log)),
              calls |-> called, threw |-> FALSE]

\* metadata.consumes is not declared by the contracts above
_setContentType(headers) ==
    SetHeader(headers, "Content-Type", Lit("application/json"))

_getRequestHeaders(metadata, template, method, caseStatusCode, log) ==
    LET secured == _setSecurityHeader(metadata.security, {}, template, method,
                                      caseStatusCode, log)
    IN  IF secured.threw THEN secured
        ELSE [secured EXCEPT !.headers = _setContentType(secured.headers)]

_getRequestHeaders_lib(metadata, template, method, log) ==
    LET secured == _setAuthorizationHeader(metadata.security, {}, template,
                                           method, log)
    IN  IF secured.threw THEN secured
        ELSE [secured EXCEPT !.headers = _setContentType(secured.headers)]

(***************************************************************************)
(* Traversal: runTests visits the endpoints in the order of                *)
(* Object.getOwnPropertyNames(paths), _testEndpoint the methods of an      *)
(* endpoint in the order of Object.getOwnPropertyNames(metadata).          *)
(***************************************************************************)
MethodsOf(endpoint) ==
    [m \in 1..Len(endpoint.value) |->
        [template |-> endpoint.key, method |-> endpoint.value[m].key,
         metadata |-> endpoint.value[m].value]]

RECURSIVE TraversalFrom(_)
TraversalFrom(e) ==
    IF e > Len(apiDefinitions.paths) THEN <<>>
    ELSE MethodsOf(apiDefinitions.paths[e]) \o TraversalFrom(e + 1)

Traversal == TraversalFrom(1)

Current == Traversal[pos.i]

\* mutant: the key never matches an entry of the disable list
IsDisabled_never(method, template) == FALSE

\* this.options.disable.includes(`${method}:${template}`)
IsDisabled(method, template) == <<method, template>> \in options.disable

Settled(how, fails, passes) ==
    Append(returned, [run |-> runNo, how |-> how,
                      tally |-> [fails |-> fails, passes |-> passes]])

(***************************************************************************)
(* Construction and registration.                                          *)
(***************************************************************************)
\* the fields the constructor sets, and the module variable _globalReject
Constructed ==
    /\ _security = <<>>
    /\ _requestParams = <<>>
    /\ _staticParams = Undefined
    /\ _securityKeys = <<>>
    /\ _requestParamsKeys = <<>>
    /\ _testFails = 0
    /\ _testPasses = 0
    /\ _globalReject = 0

\* nothing has run yet
Untouched ==
    /\ runNo = 0
    /\ pos = [i |-> 0, c |-> 0]
    /\ testCases = <<>>
    /\ request = NoRequest
    /\ dispatched = <<>>
    /\ calls = <<>>
    /\ skipped = <<>>
    /\ returned = <<>>
    /\ outcome = "none"
    /\ listeners = <<>>
    /\ orphans = <<>>
    /\ rejections = 0

Init ==
    /\ variant \in {"lib", "smoke"}
    /\ listenerChecked \in (IF variant = "lib" THEN {TRUE} ELSE BOOLEAN)
    /\ apiDefinitions \in Contracts
    /\ options \in OptionsCatalog
    /\ script \in Scripts
    /\ Constructed
    /\ Untouched
    /\ pc = "idle"
    /\ probe = NoProbe

\* Map.prototype.set: a known key keeps its place
MapSet(entries, key, value) ==
    IF HasKey(entries, key)
    THEN [i \in 1..Len(entries) |->
            IF entries[i].key = key THEN [key |-> key, value |-> value]
            ELSE entries[i]]
    ELSE Append(entries, [key |-> key, value |-> value])

security ==
    /\ pc = "idle"
    /\ script # <<>>
    /\ Head(script).op = "security"
    /\ _security' = MapSet(_security, Head(script).key, Head(script).returns)
    /\ script' = Tail(script)
    /\ UNCHANGED <<orphans, rejections>>
    /\ UNCHANGED <<variant, listenerChecked, apiDefinitions, options,
                   _requestParams, _staticParams, _securityKeys,
                   _requestParamsKeys, _testFails, _testPasses, _globalReject,
                   pc, runNo, pos, testCases, request, dispatched, calls,
                   skipped, returned, outcome, listeners, probe>>

params ==
    /\ pc = "idle"
    /\ script # <<>>
    /\ Head(script).op \in {"paramsDict", "params"}
    /\ IF Head(script).op = "paramsDict"
       THEN /\ _staticParams' = [keys |-> Head(script).keys]
            /\ UNCHANGED _requestParams
       ELSE /\ _requestParams' =
                  IF Has(_requestParams, Head(script).key) THEN _requestParams
                  ELSE Append(_requestParams, Head(script).key)
            /\ UNCHANGED _staticParams
    /\ script' = Tail(script)
    /\ UNCHANGED <<orphans, rejections>>
    /\ UNCHANGED <<variant, listenerChecked, apiDefinitions, options,
                   _security, _securityKeys, _requestParamsKeys, _testFails,
                   _testPasses, _globalReject, pc, runNo, pos, testCases,
                   request, dispatched, calls, skipped, returned, outcome,
                   listeners, probe>>

(***************************************************************************)
(* runTests.  The caller starts a run once its registrations are made and  *)
(* no earlier run is in progress.                                          *)
(***************************************************************************)
runTests ==
    /\ pc \in {"idle", "resolved", "rejected"}
    /\ script = <<>>
    /\ runNo < MaxRuns
    /\ runNo' = runNo + 1
    /\ _securityKeys' = KeysOf(_security)
    /\ _requestParamsKeys' = _requestParams
    /\ pc' = "loop"
    /\ pos' = [i |-> 1, c |-> 0]
    /\ UNCHANGED <<orphans, rejections>>
    /\ UNCHANGED <<variant, listenerChecked, apiDefinitions, options, script,
                   _security, _requestParams, _staticParams, _testFails,
                   _testPasses, _globalReject, testCases, request, dispatched,
                   calls, skipped, returned, outcome, listeners, probe>>

\* the loops are over: the tally is returned
runTests_return ==
    /\ pc = "loop"
    /\ pos.i > Len(Traversal)
    /\ pc' = "resolved"
    /\ returned' = Settled("resolved", _testFails, _testPasses)
    /\ UNCHANGED <<orphans, rejections>>
    /\ UNCHANGED <<variant, listenerChecked, apiDefinitions, options, script,
                   _security, _requestParams, _staticParams, _securityKeys,
                   _requestParamsKeys, _testFails, _testPasses, _globalReject,
                   runNo, pos, testCases, request, dispatched, calls, skipped,
                   outcome, listeners, probe>>

\* an exception leaves every awaiting loop: runTests rejects
Throw(log) ==
    /\ pc' = "rejected"
    /\ returned' = Settled("rejected", _testFails, _testPasses)
    /\ calls' = log
    /\ UNCHANGED <<_testFails, _testPasses, _globalReject, pos, testCases,
                   request, dispatched, skipped, outcome, listeners>>

\* `return` after the gray log line of a disabled endpoint method
Skip(log, nextPc, nextPos) ==
    /\ skipped' = Append(skipped, <<Current.method, Current.template>>)
    /\ calls' = log
    /\ pc' = nextPc
    /\ pos' = nextPos
    /\ UNCHANGED <<_testFails, _testPasses, _globalReject, testCases, request,
                   dispatched, returned, outcome, listeners>>

\* the position after the test case in progress
AfterCase ==
    IF pos.c < Len(testCases) THEN [i |-> pos.i, c |-> pos.c + 1]
    ELSE [i |-> pos.i + 1, c |-> 0]

PcAt(position) == IF position.c = 0 THEN "loop" ELSE "case"

\* this._api[method](this._basePath + url).set(headers).expect(code).send(body)
Request(url, headers, body, testCase) ==
    [serial |-> Len(dispatched) + 1, run |-> runNo,
     method |-> Current.method, template |-> Current.template,
     url |-> <<apiDefinitions.basePath>> \o url, headers |-> headers,
     body |-> body, code |-> testCase.code, metadata |-> testCase.metadata]

(***************************************************************************)
(* src/unnamed/part_001: _testEndpointMethod and _testCase.                *)
(***************************************************************************)
_testEndpointMethod ==
    /\ variant = "smoke"
    /\ pc = "loop"
    /\ pos.i <= Len(Traversal)
    /\ IF options.disable # {} /\ IsDisabled(Current.method, Current.template)
       THEN Skip(calls, "loop", [i |-> pos.i + 1, c |-> 0])
       ELSE /\ testCases' = _getGetMethodTestCases(Current.metadata.responses)
            /\ pc' = "case"
            /\ pos' = [pos EXCEPT !.c = 1]
            /\ UNCHANGED <<_testFails, _testPasses, _globalReject, request,
                           dispatched, calls, skipped, returned, outcome,
                           listeners>>
    /\ UNCHANGED <<orphans, rejections>>
    /\ UNCHANGED <<variant, listenerChecked, apiDefinitions, options, script,
                   _security, _requestParams, _staticParams, _securityKeys,
                   _requestParamsKeys, runNo, probe>>

\* mutant: the loop goes on to the next case without awaiting the request
Dispatch_notAwaited(sent, log) ==
    /\ request' = sent
    /\ dispatched' = Append(dispatched, sent)
    /\ calls' = log
    /\ pc' = PcAt(AfterCase)
    /\ pos' = AfterCase
    /\ UNCHANGED <<_testFails, _testPasses, testCases, skipped, returned,
                   outcome>>

\* new Promise(...): the request is handed to the transport
Dispatch(sent, log) ==
    /\ request' = sent
    /\ dispatched' = Append(dispatched, sent)
    /\ calls' = log
    /\ pc' = "inflight"
    /\ UNCHANGED <<_testFails, _testPasses, pos, testCases, skipped, returned,
                   outcome>>

\* from the first line of _testCase to the request being sent
_testCase ==
    /\ variant = "smoke"
    /\ pc = "case"
    /\ LET testCase == testCases[pos.c]
           template == Current.template
           method == Current.method
           metadata == Current.metadata
           built == _buildUrl(template, method, metadata.parameters,
                              testCase.code, calls)
           secured == _getRequestHeaders(metadata, template, method,
                                         testCase.code, built.calls)
           bodied == _buildRequestBody(template, metadata.parameters,
                                       testCase.code, secured.calls)
       IN  IF secured.threw THEN Throw(secured.calls)
           ELSE IF bodied.threw THEN Throw(bodied.calls)
           ELSE IF options.disable # {} /\ IsDisabled(method, template)
           THEN Skip(bodied.calls, PcAt(AfterCase), AfterCase)
           \* process.on('uncaughtException', _globalReject)
           ELSE IF _globalReject = 0 /\ listenerChecked
           THEN Throw(bodied.calls)
           ELSE /\ listeners' = Append(listeners, _globalReject)
                \* _globalReject = reject
                /\ _globalReject' = Len(dispatched) + 1
                /\ Dispatch(Request(built.url, secured.headers, bodied.body,
                                    testCase), bodied.calls)
    /\ UNCHANGED <<orphans, rejections>>
    /\ UNCHANGED <<variant, listenerChecked, apiDefinitions, options, script,
                   _security, _requestParams, _staticParams, _securityKeys,
                   _requestParamsKeys, runNo, probe>>

\* how the transport may settle the request in flight: the status asserted
\* by expect() matches and the body is valid or invalid against the schema,
\* the status differs, or the transport fails
HasSchema(sent) == sent.metadata # Undefined /\ sent.metadata.schema # NoSchema

Outcomes(sent) ==
    (IF sent.code = NaN THEN {} ELSE {"valid"})
        \cup (IF sent.code # NaN /\ HasSchema(sent) THEN {"invalid"} ELSE {})
        \cup {"mismatch", "transport"}

StatusMatches(how) == how \in {"valid", "invalid"}

\* mutant: the result of the schema validation is ignored
SchemaFails_never(sent, how) == FALSE

\* .then: the schema of the case is declared and the body fails it
SchemaFails(sent, how) == HasSchema(sent) /\ how = "invalid"

\* the .then and .catch callbacks of _testCase
_testCase_settle ==
    /\ variant = "smoke"
    /\ pc = "inflight"
    /\ \E how \in Outcomes(request) :
          /\ outcome' = how
          /\ IF StatusMatches(how)
             THEN /\ IF SchemaFails(request, how)
                     THEN /\ _testFails' = _testFails + 1
                          /\ UNCHANGED _testPasses
                     ELSE /\ _testPasses' = _testPasses + 1
                          /\ UNCHANGED _testFails
                  \* resolve(): the loop of _testEndpointMethod goes on
                  /\ pos' = AfterCase
                  /\ pc' = PcAt(AfterCase)
                  /\ UNCHANGED returned
             ELSE /\ _testFails' = _testFails + 1
                  /\ UNCHANGED _testPasses
                  \* reject(error): the awaiting loops are left
                  /\ pc' = "rejected"
                  /\ returned' = Settled("rejected", _testFails + 1, _testPasses)
                  /\ UNCHANGED pos
    /\ request' = NoRequest
    /\ UNCHANGED <<orphans, rejections>>
    /\ UNCHANGED <<variant, listenerChecked, apiDefinitions, options, script,
                   _security, _requestParams, _staticParams, _securityKeys,
                   _requestParamsKeys, _globalReject, runNo, testCases,
                   dispatched, calls, skipped, listeners, probe>>

\* mutant: the safety net never finds a case to reject
HasGlobalReject_never == FALSE

\* if (_globalReject)
HasGlobalReject == _globalReject # 0

\* the listener of 'unhandledRejection' that src/unnamed/part_001 installs
\* when it is loaded: the promise of the latest case is rejected, and the
\* process exits when there was no case yet.  Rejecting a case that has
\* settled changes nothing; the request of a rejected case stays in flight.
unhandledRejection ==
    /\ variant = "smoke"
    /\ pc \notin {"probe", "exited"}
    /\ rejections < MaxRejections
    /\ rejections' = rejections + 1
    /\ IF ~HasGlobalReject
       \* process.exit(1)
       THEN /\ pc' = "exited"
            /\ UNCHANGED <<request, orphans, returned>>
       ELSE IF request # NoRequest
       \* _globalReject(error): the awaiting loops are left
       THEN /\ pc' = "rejected"
            /\ returned' = Settled("rejected", _testFails, _testPasses)
            /\ orphans' = Append(orphans, request)
            /\ request' = NoRequest
       ELSE UNCHANGED <<pc, request, orphans, returned>>
    /\ UNCHANGED <<variant, listenerChecked, apiDefinitions, options, script,
                   _security, _requestParams, _staticParams, _securityKeys,
                   _requestParamsKeys, _testFails, _testPasses, _globalReject,
                   runNo, pos, testCases, dispatched, calls, skipped, outcome,
                   listeners, probe>>

\* the .then and .catch callbacks of a request whose case was rejected while
\* it was in flight: the counters change, resolve() and reject() do nothing
_testCase_settle_late ==
    /\ variant = "smoke"
    /\ orphans # <<>>
    /\ pc # "exited"
    /\ \E how \in Outcomes(Head(orphans)) :
          /\ outcome' = how
          /\ IF StatusMatches(how) /\ ~SchemaFails(Head(orphans), how)
             THEN /\ _testPasses' = _testPasses + 1
                  /\ UNCHANGED _testFails
             ELSE /\ _testFails' = _testFails + 1
                  /\ UNCHANGED _testPasses
    /\ orphans' = Tail(orphans)
    /\ UNCHANGED <<variant, listenerChecked, apiDefinitions, options, script,
                   _security, _requestParams, _staticParams, _securityKeys,
                   _requestParamsKeys, _globalReject, pc, runNo, pos,
                   testCases, request, dispatched, calls, skipped, returned,
                   listeners, rejections, probe>>

(***************************************************************************)
(* src/lib/index.js: _testMethod.                                          *)
(***************************************************************************)
_testMethod ==
    /\ variant = "lib"
    /\ pc = "loop"
    /\ pos.i <= Len(Traversal)
    /\ LET template == Current.template
           method == Current.method
           metadata == Current.metadata
           built == _buildUrl_lib(template, method, metadata.parameters, calls)
           bodied == _buildRequestBody_lib(template, metadata.parameters,
                                           built.calls)
           successResponse == _getSuccessResponseMetadata(metadata.responses)
           secured == _getRequestHeaders_lib(metadata, template, method,
                                             bodied.calls)
       IN  IF bodied.threw THEN Throw(bodied.calls)
           ELSE IF secured.threw THEN Throw(secured.calls)
           ELSE IF options.disable # {} /\ IsDisabled(method, template)
           THEN Skip(secured.calls, "loop", [i |-> pos.i + 1, c |-> 0])
           ELSE /\ Dispatch(Request(built.url, secured.headers, bodied.body,
                                    successResponse), secured.calls)
                /\ UNCHANGED <<_globalReject, listeners>>
    /\ UNCHANGED <<orphans, rejections>>
    /\ UNCHANGED <<variant, listenerChecked, apiDefinitions, options, script,
                   _security, _requestParams, _staticParams, _securityKeys,
                   _requestParamsKeys, runNo, probe>>

\* the .then and .catch callbacks of _testMethod; reading .schema of an
\* undefined metadata raises a TypeError that .catch counts as a failure
_testMethod_settle ==
    /\ variant = "lib"
    /\ pc = "inflight"
    /\ \E how \in Outcomes(request) :
          /\ outcome' = how
          /\ IF StatusMatches(how) /\ request.metadata # Undefined
             THEN /\ _testFails' =
                        IF SchemaFails(request, how)
                        THEN _testFails + 1 ELSE _testFails
                  /\ _testPasses' = _testPasses + 1
             ELSE /\ _testFails' = _testFails + 1
                  /\ UNCHANGED _testPasses
    /\ request' = NoRequest
    /\ pos' = [i |-> pos.i + 1, c |-> 0]
    /\ pc' = "loop"
    /\ UNCHANGED <<orphans, rejections>>
    /\ UNCHANGED <<variant, listenerChecked, apiDefinitions, options, script,
                   _security, _requestParams, _staticParams, _securityKeys,
                   _requestParamsKeys, _globalReject, runNo, testCases,
                   dispatched, calls, skipped, returned, listeners, probe>>

Next ==
    \/ security
    \/ params
    \/ runTests
    \/ runTests_return
    \/ _testEndpointMethod
    \/ _testCase
    \/ _testCase_settle
    \/ _testMethod
    \/ _testMethod_settle
    \/ unhandledRejection
    \/ _testCase_settle_late

Spec == Init /\ [][Next]_vars

(***************************************************************************)
(* The planner applied on its own: _getGetMethodTestCases on every         *)
(* responses object of up to MaxResponses entries, in every declared       *)
(* order, under every setting of successCases and successHttpCode.         *)
(***************************************************************************)
ResponseKeys == {"200", "204", "400", "404", "500", "default"}

SchemaOf(key) ==
    IF key = "200" THEN WidgetSchema
    ELSE IF key = "default" THEN ErrorSchema ELSE NoSchema

ResponsesObjects ==
    {[i \in 1..Len(keys) |-> Response(keys[i], SchemaOf(keys[i]))] :
        keys \in {ks \in UNION {[1..n -> ResponseKeys] : n \in 0..MaxResponses} :
                    \A i, j \in 1..Len(ks) : i # j => ks[i] # ks[j]}}

InitPlanner ==
    /\ variant = "smoke"
    /\ listenerChecked = TRUE
    /\ apiDefinitions = MiscApi
    /\ options \in {[DefaultOptions EXCEPT !.successCases = s,
                                            !.successHttpCode = c] :
                        s \in BOOLEAN, c \in {0, 204}}
    /\ script = <<>>
    /\ Constructed
    /\ Untouched
    /\ pc = "probe"
    /\ probe \in {[op |-> "plan", responses |-> r, testCases |-> <<>>,
                    done |-> FALSE] : r \in ResponsesObjects}

plan ==
    /\ pc = "probe"
    /\ probe.op = "plan"
    /\ ~probe.done
    /\ probe' = [probe EXCEPT
                    !.testCases = _getGetMethodTestCases(probe.responses),
                    !.done = TRUE]
    /\ UNCHANGED <<orphans, rejections>>
    /\ UNCHANGED <<variant, listenerChecked, apiDefinitions, options, script,
                   _security, _requestParams, _staticParams, _securityKeys,
                   _requestParamsKeys, _testFails, _testPasses, _globalReject,
                   pc, runNo, pos, testCases, request, dispatched, calls,
                   skipped, returned, outcome, listeners>>

NextPlanner == plan

SpecPlanner == InitPlanner /\ [][NextPlanner]_vars

(***************************************************************************)
(* The planner applied to one response whose schema nests sub-schemas      *)
(* under properties, items and allOf, with and without the option          *)
(* notRequiredPropertiesValidation.                                        *)
(***************************************************************************)
\* where a sub-schema may sit below the root, and the properties it declares
SubSchemas ==
    {ObjectNode(<<"properties", "owner">>, <<"id", "pet">>),
     ObjectNode(<<"properties", "owner", "properties", "pet">>, <<"name">>),
     ObjectNode(<<"items">>, <<"label">>),
     ObjectNode(<<"allOf", "0">>, <<"code">>),
     ObjectNode(<<"allOf", "0", "properties", "detail">>, <<"line">>),
     ObjectNode(<<"allOf", "1">>, <<"message">>)}

\* the root declares properties a and b, requires a alone, or declares none
Roots ==
    {ObjectNode(<<>>, <<"a", "b">>),
     RequiringNode(<<>>, <<"a", "b">>, <<"a">>),
     Node(<<>>)}

Schemas == {{root} \cup below : root \in Roots, below \in SUBSET SubSchemas}

InitSchema ==
    /\ variant = "smoke"
    /\ listenerChecked = TRUE
    /\ apiDefinitions = MiscApi
    /\ options \in {[DefaultOptions EXCEPT
                        !.notRequiredPropertiesValidation = force] :
                        force \in BOOLEAN}
    /\ script = <<>>
    /\ Constructed
    /\ Untouched
    /\ pc = "probe"
    /\ probe \in {[op |-> "plan", responses |-> <<Response("200", schema)>>,
                    testCases |-> <<>>, done |-> FALSE] : schema \in Schemas}

SpecSchema == InitSchema /\ [][NextPlanner]_vars

(***************************************************************************)
(* The security resolver applied on its own: _setSecurityHeader and        *)
(* _setAuthorizationHeader on empty headers, for every list of security    *)
(* requirements below, under registries whose handlers return each kind of *)
(* value, with and without forceAuthorizationHeader.                       *)
(***************************************************************************)
\* what a security handler may return
ReturnKinds ==
    {"string", "map", "number", "boolean", "null", "undefined", "array",
     "function"}

Registered(key, returns) == [key |-> key, value |-> returns]

\* this._security after the calls of security()
Registries ==
    {<<>>}
        \cup {<<Registered("token_auth", returns)>> : returns \in ReturnKinds}
        \cup {<<Registered("api_key", "map"), Registered("token_auth", "string")>>,
              <<Registered("token_auth", "string"), Registered("api_key", "map")>>}

\* metadata.security: a list of requirements, each the scheme names it keys
SecurityRequirements ==
    {<<>>,
     << <<"token_auth">> >>,
     << <<"api_key">>, <<"token_auth">> >>,
     << <<"token_auth", "api_key">> >>,
     << <<"basic">> >>}

InitSecurity ==
    /\ variant \in {"lib", "smoke"}
    /\ listenerChecked = TRUE
    /\ apiDefinitions = MiscApi
    /\ options \in {[DefaultOptions EXCEPT !.forceAuthorizationHeader = force] :
                        force \in BOOLEAN}
    /\ script = <<>>
    /\ _security \in Registries
    /\ _requestParams = <<>>
    /\ _staticParams = Undefined
    /\ _securityKeys = KeysOf(_security)
    /\ _requestParamsKeys = <<>>
    /\ _testFails = 0
    /\ _testPasses = 0
    /\ _globalReject = 0
    /\ Untouched
    /\ pc = "probe"
    /\ probe \in {[op |-> "secure", collection |-> c, statusCode |-> code,
                    got |-> [headers |-> {}, calls |-> <<>>, threw |-> FALSE],
                    done |-> FALSE] :
                        c \in SecurityRequirements, code \in {200, 404}}

secure ==
    /\ pc = "probe"
    /\ probe.op = "secure"
    /\ ~probe.done
    /\ variant = "smoke"
    /\ probe' = [probe EXCEPT
                    !.got = _setSecurityHeader(probe.collection, {},
                                               BoomTemplate, "delete",
                                               probe.statusCode, <<>>),
                    !.done = TRUE]
    /\ UNCHANGED <<orphans, rejections>>
    /\ UNCHANGED <<variant, listenerChecked, apiDefinitions, options, script,
                   _security, _requestParams, _staticParams, _securityKeys,
                   _requestParamsKeys, _testFails, _testPasses, _globalReject,
                   pc, runNo, pos, testCases, request, dispatched, calls,
                   skipped, returned, outcome, listeners>>

secure_lib ==
    /\ pc = "probe"
    /\ probe.op = "secure"
    /\ ~probe.done
    /\ variant = "lib"
    /\ probe' = [probe EXCEPT
                    !.got = _setAuthorizationHeader(probe.collection, {},
                                                    BoomTemplate, "delete",
                                                    <<>>),
                    !.done = TRUE]
    /\ UNCHANGED <<orphans, rejections>>
    /\ UNCHANGED <<variant, listenerChecked, apiDefinitions, options, script,
                   _security, _requestParams, _staticParams, _securityKeys,
                   _requestParamsKeys, _testFails, _testPasses, _globalReject,
                   pc, runNo, pos, testCases, request, dispatched, calls,
                   skipped, returned, outcome, listeners>>

NextSecurity == secure \/ secure_lib

SpecSecurity == InitSecurity /\ [][NextSecurity]_vars

(***************************************************************************)
(* The resolver applied on its own: getParamValue of either engine on      *)
(* every key, declared type and target status code, under registries with  *)
(* and without a handler or a static entry for the key.                    *)
(***************************************************************************)
ParamNames == {"id", "age", "name"}
DeclaredTypes ==
    {"", "integer", "number", "boolean", "array", "object", "string", "file"}
StatusCodes == {200, 204, 400, 404, 500}

InitResolver ==
    /\ variant \in {"lib", "smoke"}
    /\ listenerChecked = TRUE
    /\ apiDefinitions = WidgetsApi
    /\ options = DefaultOptions
    /\ script = <<>>
    /\ _security = <<>>
    /\ _requestParams \in {<<>>, <<"id">>, <<"age", "id">>}
    /\ _staticParams \in {Undefined, [keys |-> <<"id">>],
                           [keys |-> <<"age", "name">>]}
    /\ _securityKeys = <<>>
    /\ _requestParamsKeys = _requestParams
    /\ _testFails = 0
    /\ _testPasses = 0
    /\ _globalReject = 0
    /\ Untouched
    /\ pc = "probe"
    /\ probe \in {[op |-> "resolve", key |-> k, type |-> t, statusCode |-> c,
                    got |-> [value |-> Undefined, calls |-> <<>>],
                    done |-> FALSE] :
                        k \in ParamNames, t \in DeclaredTypes, c \in StatusCodes}

ProbeArgs == UrlHandlerArgs(WidgetTemplate, "get")

resolve ==
    /\ pc = "probe"
    /\ probe.op = "resolve"
    /\ ~probe.done
    /\ variant = "smoke"
    /\ probe' = [probe EXCEPT
                    !.got = getParamValue(probe.key, probe.type,
                                          probe.statusCode, ProbeArgs, <<>>),
                    !.done = TRUE]
    /\ UNCHANGED <<orphans, rejections>>
    /\ UNCHANGED <<variant, listenerChecked, apiDefinitions, options, script,
                   _security, _requestParams, _staticParams, _securityKeys,
                   _requestParamsKeys, _testFails, _testPasses, _globalReject,
                   pc, runNo, pos, testCases, request, dispatched, calls,
                   skipped, returned, outcome, listeners>>

resolve_lib ==
    /\ pc = "probe"
    /\ probe.op = "resolve"
    /\ ~probe.done
    /\ variant = "lib"
    /\ probe' = [probe EXCEPT
                    !.got = getParamValue_lib(probe.key, ProbeArgs, <<>>),
                    !.done = TRUE]
    /\ UNCHANGED <<orphans, rejections>>
    /\ UNCHANGED <<variant, listenerChecked, apiDefinitions, options, script,
                   _security, _requestParams, _staticParams, _securityKeys,
                   _requestParamsKeys, _testFails, _testPasses, _globalReject,
                   pc, runNo, pos, testCases, request, dispatched, calls,
                   skipped, returned, outcome, listeners>>

NextResolver == resolve \/ resolve_lib

SpecResolver == InitResolver /\ [][NextResolver]_vars

(***************************************************************************)
(* The body overlay applied on its own: setObjectParamValue for one name   *)
(* and _buildRequestBody for every known name, of either engine, on        *)
(* generated bodies with nested objects and arrays.                        *)
(***************************************************************************)
\* {name, id: {id, x}}
NestedBody ==
    {[path |-> <<"name">>, value |-> Fake("string")],
     [path |-> <<"id", "id">>, value |-> Fake("integer")],
     [path |-> <<"id", "x">>, value |-> Fake("string")]}

\* {id, note, items: [{id}, {id}]}
ArrayBody ==
    {[path |-> <<"id">>, value |-> Fake("integer")],
     [path |-> <<"note">>, value |-> Fake("string")],
     [path |-> <<"items", "0", "id">>, value |-> Fake("integer")],
     [path |-> <<"items", "1", "id">>, value |-> Fake("integer")]}

\* {title}
FlatBody == {[path |-> <<"title">>, value |-> Fake("string")]}

Bodies == {PersonBody, NestedBody, ArrayBody, FlatBody}

NoOverlay == [object |-> {}, body |-> {}, calls |-> <<>>, threw |-> FALSE]

InitBody ==
    /\ variant \in {"lib", "smoke"}
    /\ listenerChecked = TRUE
    /\ apiDefinitions = WidgetsApi
    /\ options \in {[DefaultOptions EXCEPT !.setParamsInBody = overlay] :
                        overlay \in BOOLEAN}
    /\ script = <<>>
    /\ _security = <<>>
    /\ _requestParams \in {<<>>, <<"id">>, <<"age", "id">>}
    /\ _staticParams \in {Undefined, [keys |-> <<"id">>],
                           [keys |-> <<"age", "name">>]}
    /\ _securityKeys = <<>>
    /\ _requestParamsKeys = _requestParams
    /\ _testFails = 0
    /\ _testPasses = 0
    /\ _globalReject = 0
    /\ Untouched
    /\ pc = "probe"
    /\ probe \in {[op |-> op, body |-> body, key |-> key, statusCode |-> code,
                    got |-> NoOverlay, done |-> FALSE] :
                        op \in {"overlay", "build"}, body \in Bodies,
                        key \in ParamNames, code \in {200, 400}}

Overlaid(got) ==
    [object |-> got.object, body |-> {}, calls |-> got.calls, threw |-> FALSE]

Built(got) ==
    [object |-> {}, body |-> got.body, calls |-> got.calls, threw |-> got.threw]

overlay ==
    /\ pc = "probe"
    /\ probe.op = "overlay"
    /\ ~probe.done
    /\ probe' = [probe EXCEPT
                    !.got = Overlaid(
                        IF variant = "smoke"
                        THEN setObjectParamValue(probe.body, probe.key,
                                                 PeopleTemplate,
                                                 probe.statusCode, <<>>)
                        ELSE setObjectParamValue_lib(probe.body, probe.key,
                                                     PeopleTemplate, <<>>)),
                    !.done = TRUE]
    /\ UNCHANGED <<orphans, rejections>>
    /\ UNCHANGED <<variant, listenerChecked, apiDefinitions, options, script,
                   _security, _requestParams, _staticParams, _securityKeys,
                   _requestParamsKeys, _testFails, _testPasses, _globalReject,
                   pc, runNo, pos, testCases, request, dispatched, calls,
                   skipped, returned, outcome, listeners>>

build ==
    /\ pc = "probe"
    /\ probe.op = "build"
    /\ ~probe.done
    /\ probe' = [probe EXCEPT
                    !.got = Built(
                        IF variant = "smoke"
                        THEN _buildRequestBody(PeopleTemplate,
                                               <<BodyParam(probe.body)>>,
                                               probe.statusCode, <<>>)
                        ELSE _buildRequestBody_lib(PeopleTemplate,
                                                   <<BodyParam(probe.body)>>,
                                                   <<>>)),
                    !.done = TRUE]
    /\ UNCHANGED <<orphans, rejections>>
    /\ UNCHANGED <<variant, listenerChecked, apiDefinitions, options, script,
                   _security, _requestParams, _staticParams, _securityKeys,
                   _requestParamsKeys, _testFails, _testPasses, _globalReject,
                   pc, runNo, pos, testCases, request, dispatched, calls,
                   skipped, returned, outcome, listeners>>

NextBody == overlay \/ build

SpecBody == InitBody /\ [][NextBody]_vars

(***************************************************************************)
(* The url builder applied on its own: _buildUrl of either engine on a     *)
(* template with two placeholders, for lists of path, query and body       *)
(* parameters, under registries with and without handlers.                 *)
(***************************************************************************)
PetTemplate ==
    <<Lit("/users/"), Placeholder("id"), Lit("/pets/"), Placeholder("name")>>

ParameterLists ==
    {<<Param("id", "path", "string")>>,
     <<Param("id", "path", "string"), Param("name", "path", "string")>>,
     <<Param("id", "path", "string"), Param("age", "query", "integer")>>,
     <<Param("age", "query", "integer"), Param("name", "query", "")>>,
     <<Param("age", "query", ""), BodyParam(FlatBody),
       Param("id", "path", "string")>>}

InitUrl ==
    /\ variant \in {"lib", "smoke"}
    /\ listenerChecked = TRUE
    /\ apiDefinitions = WidgetsApi
    /\ options = DefaultOptions
    /\ script = <<>>
    /\ _security = <<>>
    /\ _requestParams \in {<<>>, <<"id">>, <<"age", "id">>}
    /\ _staticParams \in {Undefined, [keys |-> <<"id">>],
                           [keys |-> <<"age", "name">>]}
    /\ _securityKeys = <<>>
    /\ _requestParamsKeys = _requestParams
    /\ _testFails = 0
    /\ _testPasses = 0
    /\ _globalReject = 0
    /\ Untouched
    /\ pc = "probe"
    /\ probe \in {[op |-> "url", template |-> PetTemplate, params |-> list,
                    statusCode |-> code,
                    got |-> [url |-> <<>>, calls |-> <<>>], done |-> FALSE] :
                        list \in ParameterLists, code \in {200, 400}}

buildUrl ==
    /\ pc = "probe"
    /\ probe.op = "url"
    /\ ~probe.done
    /\ variant = "smoke"
    /\ probe' = [probe EXCEPT
                    !.got = _buildUrl(probe.template, "get", probe.params,
                                      probe.statusCode, <<>>),
                    !.done = TRUE]
    /\ UNCHANGED <<orphans, rejections>>
    /\ UNCHANGED <<variant, listenerChecked, apiDefinitions, options, script,
                   _security, _requestParams, _staticParams, _securityKeys,
                   _requestParamsKeys, _testFails, _testPasses, _globalReject,
                   pc, runNo, pos, testCases, request, dispatched, calls,
                   skipped, returned, outcome, listeners>>

buildUrl_lib ==
    /\ pc = "probe"
    /\ probe.op = "url"
    /\ ~probe.done
    /\ variant = "lib"
    /\ probe' = [probe EXCEPT
                    !.got = _buildUrl_lib(probe.template, "get", probe.params,
                                          <<>>),
                    !.done = TRUE]
    /\ UNCHANGED <<orphans, rejections>>
    /\ UNCHANGED <<variant, listenerChecked, apiDefinitions, options, script,
                   _security, _requestParams, _staticParams, _securityKeys,
                   _requestParamsKeys, _testFails, _testPasses, _globalReject,
                   pc, runNo, pos, testCases, request, dispatched, calls,
                   skipped, returned, outcome, listeners>>

NextUrl == buildUrl \/ buildUrl_lib

SpecUrl == InitUrl /\ [][NextUrl]_vars

(***************************************************************************)
(* Properties.                                                             *)
(***************************************************************************)
Last(seq) == seq[Len(seq)]

\* the requests dispatched by the k-th runTests
DispatchedIn(k) ==
    Cardinality({i \in 1..Len(dispatched) : dispatched[i].run = k})

\* the requests whose dispatch has settled
SettledCount ==
    Len(dispatched) - (IF request = NoRequest THEN 0 ELSE 1) - Len(orphans)

Failure == {"mismatch", "transport"}

\* a test case follows the one in progress in traversal order
HasLaterCase ==
    \/ pos.c < Len(testCases)
    \/ \E j \in (pos.i + 1)..Len(Traversal) :
          <<Traversal[j].method, Traversal[j].template>> \notin options.disable

C2_TallyAccounting ==
    /\ [](variant = "smoke" => _testPasses + _testFails = SettledCount)
    /\ [][(variant = "smoke" /\ outcome' # outcome) =>
            LET late == Len(orphans') < Len(orphans)
                sent == IF late THEN Head(orphans) ELSE request
                passed == /\ outcome' \in {"valid", "invalid"}
                          /\ (~HasSchema(sent) \/ outcome' = "valid")
            IN  /\ _testPasses' = _testPasses + (IF passed THEN 1 ELSE 0)
                /\ _testFails' = _testFails + (IF passed THEN 0 ELSE 1)]_vars

\* C2 witness: a dispatch settled with a body that fails its schema, after
\* an earlier dispatch passed
C2_Witness ==
    /\ variant = "smoke"
    /\ request = NoRequest
    /\ outcome = "invalid"
    /\ _testPasses > 0
    /\ _testFails > 0

\* C3: no request is ever dispatched for an endpoint method whose
\* `method:template` is in options.disable, and the tally changes only when
\* the request of an endpoint method that is not disabled settles.
C3_DisabledNeverDispatched ==
    /\ [](\A i \in 1..Len(dispatched) :
            <<dispatched[i].method, dispatched[i].template>> \notin options.disable)
    /\ [][(_testPasses' # _testPasses \/ _testFails' # _testFails) =>
            LET sent == IF Len(orphans') < Len(orphans) THEN Head(orphans) ELSE request
            IN  /\ sent # NoRequest
                /\ <<sent.method, sent.template>> \notin options.disable]_vars

\* C3 witness: a run that skipped a disabled endpoint method, dispatched
\* another one and returned
C3_Witness ==
    /\ pc = "resolved"
    /\ skipped # <<>>
    /\ DispatchedIn(runNo) > 0
    /\ _testPasses + _testFails > 0

\* C4: the tally a runTests invocation returns counts only the cases of that
\* invocation: its passes + fails is the number of requests it dispatched
\* (stated for src/lib/index.js and runs none of whose cases declares a
\* schema).
C4_TallyResetPerRun ==
    \A k \in 1..Len(returned) :
        (/\ variant = "lib"
         /\ returned[k].how = "resolved"
         /\ \A i \in 1..Len(dispatched) : ~HasSchema(dispatched[i]))
            => returned[k].tally.passes + returned[k].tally.fails
                   = DispatchedIn(returned[k].run)

\* the response definitions declared over all endpoint methods
RECURSIVE DeclaredFrom(_)
DeclaredFrom(i) ==
    IF i > Len(Traversal) THEN 0
    ELSE Len(Traversal[i].metadata.responses) + DeclaredFrom(i + 1)

Surviving(responses) ==
    {i \in 1..Len(responses) :
        /\ responses[i].key \in {"200", "204", "400", "404", "500"}
        /\ parseInt(responses[i].key) < (IF options.successCases THEN 300 ELSE 500)}

Planned == probe.op = "plan" /\ probe.done

\* C5: _getGetMethodTestCases returns one case per declared status code that
\* survives the filter (below 300 with successCases, below 500 otherwise) and
\* exactly one default case when none survives or none is declared.
C5_PlannerCaseCount ==
    Planned =>
        LET kept == Surviving(probe.responses)
            cases == probe.testCases
        IN  IF kept = {}
            THEN /\ Len(cases) = 1
                 /\ cases[1].metadata = Undefined
            ELSE /\ Len(cases) = Cardinality(kept)
                 /\ \A i \in kept :
                       Cardinality({j \in 1..Len(cases) :
                           cases[j].code = parseInt(probe.responses[i].key)}) = 1

\* C5 witness: success-only planning of three declared responses kept two
C5_Witness ==
    /\ Planned
    /\ options.successCases
    /\ Len(probe.responses) = 3
    /\ Len(probe.testCases) = 2

\* C6: the expected status code of every planned case is one of the declared
\* response keys, and is the configured default only when the method declares
\* no response at all.
C6_StatusIsDeclared ==
    Planned =>
        \A j \in 1..Len(probe.testCases) :
            \/ \E i \in 1..Len(probe.responses) :
                  /\ IsIntegerKey(probe.responses[i].key)
                  /\ parseInt(probe.responses[i].key) = probe.testCases[j].code
            \/ /\ Len(probe.responses) = 0
               /\ probe.testCases[j].code =
                     (IF options.successHttpCode # 0
                      THEN options.successHttpCode ELSE 200)

Resolved == probe.op = "resolve" /\ probe.done

HandlerRegistered == \E i \in 1..Len(_requestParams) : _requestParams[i] = probe.key

StaticEntry ==
    /\ _staticParams # Undefined
    /\ \E i \in 1..Len(_staticParams.keys) : _staticParams.keys[i] = probe.key

\* C8: getParamValue yields the handler's result when a handler is registered
\* for the key (the static dictionary and the generator are not used), else
\* the static entry when there is one, and only otherwise a generated value
\* or undefined; no handler is invoked in the last two cases.
C8_ResolverPrecedence ==
    Resolved =>
        IF HandlerRegistered
        THEN /\ probe.got.value = Handled(probe.key, 1)
             /\ Len(probe.got.calls) = 1
             /\ probe.got.calls[1].key = probe.key
        ELSE /\ probe.got.calls = <<>>
             /\ IF StaticEntry THEN probe.got.value = Static(probe.key)
                ELSE probe.got.value.kind \in {"fake", "undefined"}

\* C8 witness: a typed key with both a handler and a static entry was resolved
C8_Witness ==
    /\ Resolved
    /\ HandlerRegistered
    /\ StaticEntry
    /\ probe.type # ""
    /\ probe.got.value.kind = "handler"

\* a typed parameter with neither a handler nor a static entry, resolved by
\* src/unnamed/part_001
Synthesis ==
    /\ Resolved
    /\ variant = "smoke"
    /\ ~HandlerRegistered
    /\ ~StaticEntry
    /\ probe.type # ""

\* C9 (as claimed): a value is generated only when the target status code is
\* a client error (>= 400); for any other code the parameter resolves to
\* undefined.
C9_SynthesisOnlyForClientErrors ==
    Synthesis =>
        /\ probe.got.value.kind = "fake" => probe.statusCode >= 400
        /\ probe.statusCode < 400 => probe.got.value = Undefined

\* C9 (amended): a value is generated whatever the target status code is;
\* the parameter never resolves to undefined.
C9_SynthesisForEveryStatus ==
    Synthesis => probe.got.value.kind = "fake"

\* C9 witness: an integer parameter of a 200 case got a generated integer
C9_Witness ==
    /\ Synthesis
    /\ probe.type = "integer"
    /\ probe.statusCode = 200
    /\ probe.got.value = Fake("integer")

\* the table of the specification
TypeInversionTable(type) ==
    IF type \in {"integer", "number", "boolean", "array", "object"} THEN "string"
    ELSE IF type = "string" THEN "integer"
    ELSE "string"

\* C10 (as claimed): for every 400-class target status code the generated
\* value has the type the inversion table gives for the declared type.
C10_InversionAtEvery4xx ==
    (Synthesis /\ probe.statusCode \in 400..499)
        => probe.got.value = Fake(TypeInversionTable(probe.type))

\* C10 (amended): for the target status code 400 the generated value has the
\* type the inversion table gives for the declared type.
C10_InversionAt400 ==
    (Synthesis /\ probe.statusCode = 400)
        => probe.got.value = Fake(TypeInversionTable(probe.type))

\* C10 witness: a string parameter of a 400 case got a generated integer
C10_Witness ==
    /\ Synthesis
    /\ probe.statusCode = 400
    /\ probe.type = "string"
    /\ probe.got.value = Fake("integer")
\* C18: with notRequiredPropertiesValidation, after planning every sub-schema
\* of a retained response's schema that has `properties` (the root, those
\* under properties, under items and inside arrays) has `required` equal to
\* the list of its property names.
C18_ForceRequiredEverywhere ==
    (Planned /\ options.notRequiredPropertiesValidation) =>
        \A j \in 1..Len(probe.testCases) :
            \A node \in probe.testCases[j].metadata.schema :
                node.hasProperties =>
                    node.hasRequired /\ node.required = node.properties
\* the endpoint method a dispatched request belongs to
MethodOf(sent) ==
    Traversal[CHOOSE i \in 1..Len(Traversal) :
                /\ Traversal[i].method = sent.method
                /\ Traversal[i].template = sent.template].metadata

\* the parameter has no handler and no static entry, and no value is
\* generated for it
ResolvesToAbsent(param) ==
    /\ ~Has(_requestParams, param.name)
    /\ ~HasStatic(param.name)
    /\ (variant = "lib" \/ param.type = "")

\* the text `name=` occurs in the url
HasPair(url, name) ==
    \E i \in 1..(Len(url) - 1) : url[i] = Lit(name) /\ url[i + 1] = Lit("=")

\* C11: when a path or query parameter resolves to absent, the url of the
\* dispatched request keeps the placeholder `{name}` of a path parameter and
\* has no pair `name=` for a query parameter.
C11_AbsentOmittedFromUrl ==
    \A k \in 1..Len(dispatched) :
        LET sent == dispatched[k]
            declared == MethodOf(sent).parameters
        IN  \A i \in 1..Len(declared) :
                ResolvesToAbsent(declared[i]) =>
                    /\ (/\ declared[i].in = "path"
                        /\ \E j \in 1..Len(sent.template) :
                              sent.template[j] = Placeholder(declared[i].name))
                          => \E j \in 1..Len(sent.url) :
                                sent.url[j] = Placeholder(declared[i].name)
                    /\ declared[i].in = "query"
                          => ~HasPair(sent.url, declared[i].name)
Secured == probe.op = "secure" /\ probe.done

HeaderNames(headers) == {h.name : h \in headers}

\* C12: when the security handler returns a string, Authorization with that
\* string is the only header security resolution adds; when it returns a
\* key-value map, exactly its keys are added; for any other return value
\* (number, boolean, null, undefined, array, function) an error is raised.
C12_SecurityResultNormalized ==
    (Secured /\ variant = "smoke" /\ probe.got.calls # <<>>) =>
        LET returns == Lookup(_security, probe.got.calls[1].key)
        IN  CASE returns = "string" ->
                    /\ ~probe.got.threw
                    /\ probe.got.headers =
                          {[name |-> "Authorization",
                            value |-> SecurityResult("string", 1)]}
              [] returns = "map" ->
                    /\ ~probe.got.threw
                    /\ HeaderNames(probe.got.headers) =
                          {"Authorization", "X-Custom-Auth"}
              [] OTHER -> probe.got.threw

\* every scheme name of the requirement list, in declared order
RECURSIVE Flatten(_)
Flatten(requirements) ==
    IF requirements = <<>> THEN <<>>
    ELSE Head(requirements) \o Flatten(Tail(requirements))

DeclaredAndRegistered ==
    SelectSeq(Flatten(probe.collection), LAMBDA name : HasKey(_security, name))

\* C13: when the method declares security requirements and a declared scheme
\* has a registered provider, the handler of the first such scheme in
\* declared order over the whole requirement list is the one invoked, with
\* (the scheme's metadata, path, method, statusCode).
C13_FirstDeclaredSchemeInvoked ==
    (Secured /\ DeclaredAndRegistered # <<>>) =>
        /\ Len(probe.got.calls) = 1
        /\ probe.got.calls[1].key = DeclaredAndRegistered[1]
        /\ probe.got.calls[1].args =
              IF variant = "smoke"
              THEN << <<Lit(DeclaredAndRegistered[1])>>, BoomTemplate,
                      <<Lit("delete")>>, <<Number(probe.statusCode)>> >>
              ELSE << <<Lit(DeclaredAndRegistered[1])>>, BoomTemplate,
                      <<Lit("delete")>> >>

\* C14: for a method that declares no security requirement, a security handler
\* is invoked iff forceAuthorizationHeader is set and a provider is
\* registered; it is the provider registered first, invoked with (null, path,
\* method, statusCode).  With no provider registered no header is added and
\* nothing is invoked, whatever the method declares.
C14_UndeclaredSecurity ==
    (Secured /\ variant = "smoke") =>
        /\ probe.collection = <<>> =>
              /\ probe.got.calls # <<>>
                    <=> (options.forceAuthorizationHeader /\ _security # <<>>)
              /\ probe.got.calls # <<>> =>
                    /\ Len(probe.got.calls) = 1
                    /\ probe.got.calls[1].key = _security[1].key
                    /\ probe.got.calls[1].args =
                          << <<Null>>, BoomTemplate, <<Lit("delete")>>,
                             <<Number(probe.statusCode)>> >>
        /\ _security = <<>> =>
              /\ probe.got.headers = {}
              /\ probe.got.calls = <<>>
              /\ ~probe.got.threw

\* C14 witness: with two providers registered and forceAuthorizationHeader, a
\* method without security requirements got the headers of the first one
C14_Witness ==
    /\ Secured
    /\ variant = "smoke"
    /\ probe.collection = <<>>
    /\ options.forceAuthorizationHeader
    /\ _security = <<Registered("api_key", "map"),
                     Registered("token_auth", "string")>>
    /\ Len(probe.got.calls) = 1
    /\ probe.got.calls[1].key = "api_key"
    /\ HeaderNames(probe.got.headers) = {"Authorization", "X-Custom-Auth"}
OverlayDone == probe.op = "overlay" /\ probe.done

BuildDone == probe.op = "build" /\ probe.done

\* the locations of a body whose key is `key`
Occurrences(body, key) ==
    {p \in UNION {{SubSeq(leaf.path, 1, k) : k \in 1..Len(leaf.path)} :
                    leaf \in body} : p[Len(p)] = key}

\* the value the resolver yields for the probed name at its first invocation
ResolvedValue ==
    IF HandlerRegistered THEN Handled(probe.key, 1) ELSE Static(probe.key)

\* the leaf lies at or below one of the locations
Below(leaf, locations) ==
    \E p \in locations :
        Len(p) <= Len(leaf.path) /\ SubSeq(leaf.path, 1, Len(p)) = p

\* C15: after setObjectParamValue for a known name, every location of the body
\* whose key is the name, at any depth, holds the resolved value, and every
\* other location is unchanged.
C15_DeepOverlay ==
    (OverlayDone /\ (HandlerRegistered \/ StaticEntry)) =>
        LET matches == Occurrences(probe.body, probe.key)
            after == probe.got.object
        IN  /\ \A p \in matches :
                  [path |-> p, value |-> ResolvedValue] \in after
            /\ \A leaf \in probe.body :
                  ~Below(leaf, matches) => leaf \in after
            /\ \A leaf \in after :
                  leaf \in probe.body \/ leaf.path \in matches

\* C16: while _buildRequestBody of src/unnamed/part_001 runs, a parameter
\* handler is invoked only for a name that occurs as a key in the generated
\* body; for a name without a match nothing is resolved.
C16_NoCallForAbsentNames ==
    (BuildDone /\ variant = "smoke") =>
        \A i \in 1..Len(probe.got.calls) :
            \E leaf \in probe.body : \E k \in 1..Len(leaf.path) :
                leaf.path[k] = probe.got.calls[i].key

\* C16 witness: with handlers for age and id and a body that has id but not
\* age, the body was overlaid and only the handler of id was invoked
C16_Witness ==
    /\ BuildDone
    /\ variant = "smoke"
    /\ options.setParamsInBody
    /\ ~probe.got.threw
    /\ _requestParams = <<"age", "id">>
    /\ probe.body = ArrayBody
    /\ Len(probe.got.calls) = 1
    /\ probe.got.calls[1].key = "id"
    /\ [path |-> <<"id">>, value |-> Handled("id", 1)] \in probe.got.body

\* a name with a handler that occurs at two or more locations of the body,
\* overlaid by src/unnamed/part_001
OverlaidTwice ==
    /\ OverlayDone
    /\ variant = "smoke"
    /\ HandlerRegistered
    /\ Cardinality(Occurrences(probe.body, probe.key)) >= 2

\* C17 (as claimed): the handler is invoked once per occurrence of the name.
C17_ResolvedPerOccurrence ==
    OverlaidTwice =>
        Len(probe.got.calls) = Cardinality(Occurrences(probe.body, probe.key))

\* C17 (amended): the handler is invoked once for the name, however many
\* occurrences there are, and every value the overlay writes is the result
\* of that one invocation.
C17_ResolvedOncePerName ==
    OverlaidTwice =>
        /\ Len(probe.got.calls) = 1
        /\ probe.got.calls[1].key = probe.key
        /\ \A leaf \in probe.got.object :
              leaf \in probe.body \/ leaf.value = Handled(probe.key, 1)

\* C17 witness: id occurs three times in the body and all three locations
\* hold the result of the first invocation of its handler
C17_Witness ==
    /\ OverlaidTwice
    /\ probe.body = ArrayBody
    /\ probe.key = "id"
    /\ \A p \in {<<"id">>, <<"items", "0", "id">>, <<"items", "1", "id">>} :
          [path |-> p, value |-> Handled("id", 1)] \in probe.got.object
\* C19: within a run at most one test case is in progress: the request in
\* flight is the latest one dispatched, and a handler is invoked or a request
\* dispatched only when no request is in flight and the tally increment of
\* every earlier request has been applied (the request of a case that the
\* safety net rejected belongs to an earlier run and may still be pending).
C19_NoOverlap ==
    /\ [](request # NoRequest =>
            /\ pc = "inflight"
            /\ request = Last(dispatched))
    /\ [][(calls' # calls \/ dispatched' # dispatched) =>
            /\ request = NoRequest
            /\ _testPasses + _testFails + Len(orphans) >= Len(dispatched)]_vars

\* C19 witness: the second request of a run is in flight, the first one has
\* been counted, and a parameter handler has been invoked for each of them
C19_Witness ==
    /\ Len(dispatched) = 2
    /\ dispatched[1].run = dispatched[2].run
    /\ request = dispatched[2]
    /\ _testPasses + _testFails >= 1
    /\ \E key \in {"id", "age"} : Invocations(calls, "param", key) >= 2

\* the place of a request's endpoint among the declared paths, and of its
\* method among the declared methods of that endpoint
EndpointIndex(sent) ==
    CHOOSE e \in 1..Len(apiDefinitions.paths) :
        apiDefinitions.paths[e].key = sent.template

MethodIndex(sent) ==
    CHOOSE m \in 1..Len(apiDefinitions.paths[EndpointIndex(sent)].value) :
        apiDefinitions.paths[EndpointIndex(sent)].value[m].key = sent.method

Precedes(a, b) ==
    \/ EndpointIndex(a) < EndpointIndex(b)
    \/ /\ EndpointIndex(a) = EndpointIndex(b)
       /\ MethodIndex(a) < MethodIndex(b)
    \/ /\ EndpointIndex(a) = EndpointIndex(b)
       /\ MethodIndex(a) = MethodIndex(b)
       /\ a.code < b.code

\* C20: the requests a run dispatches are ordered by endpoint in declared
\* order, then by method in declared order, then by expected status code in
\* ascending numeric order.
C20_TraversalOrder ==
    \A i, j \in 1..Len(dispatched) :
        (i < j /\ dispatched[i].run = dispatched[j].run)
            => Precedes(dispatched[i], dispatched[j])

\* C20 witness: a run of src/unnamed/part_001 over GET /widgets/{id} (200,
\* 404) and POST /people (declared 400, 200) dispatched 200, 404, 200, 400
C20_Witness ==
    /\ variant = "smoke"
    /\ pc = "resolved"
    /\ apiDefinitions = WidgetsApi
    /\ DispatchedIn(runNo) = 4
    /\ \E k \in 0..(Len(dispatched) - 4) :
          /\ dispatched[k + 1].run = runNo
          /\ <<dispatched[k + 1].code, dispatched[k + 2].code,
               dispatched[k + 3].code, dispatched[k + 4].code>> =
                 <<200, 404, 200, 400>>
          /\ dispatched[k + 3].method = "post"
\* the invocation of a parameter handler made while a url is built (the body
\* overlay passes `true` in place of the method)
ForUrl(call) == call.kind = "param" /\ call.args[2] # <<True>>

\* C21: a parameter handler invoked by src/unnamed/part_001 to resolve a path
\* or query parameter of a test case gets three arguments: the path, the
\* method and the response status code of the case.
C21_HandlerGetsStatusCode ==
    variant = "smoke" =>
        \A i \in 1..Len(calls) :
            ForUrl(calls[i]) =>
                /\ Len(calls[i].args) = 3
                /\ \E code \in StatusCodes :
                      calls[i].args[3] = <<Number(code)>>
UrlBuilt == probe.op = "url" /\ probe.done

\* C24: every parameter handler invoked while a url is built gets as its path
\* argument the path template as the contract declares it, however many
\* parameters of the endpoint were resolved before.
C24_HandlerGetsDeclaredTemplate ==
    UrlBuilt =>
        \A i \in 1..Len(probe.got.calls) :
            probe.got.calls[i].args[1] = probe.template
\* C25: with setParamsInBody, handlers registered and no static dictionary,
\* _buildRequestBody completes without an error and every location of the
\* body whose key has a handler holds a result of that handler.
C25_DictionaryOptional ==
    (/\ BuildDone
     /\ options.setParamsInBody
     /\ _requestParams # <<>>
     /\ _staticParams = Undefined) =>
        /\ ~probe.got.threw
        /\ \A i \in 1..Len(_requestParams) :
              \A leaf \in probe.body :
                  Last(leaf.path) = _requestParams[i] =>
                      \E other \in probe.got.body :
                          /\ other.path = leaf.path
                          /\ other.value.kind = "handler"
                          /\ other.value.tag = _requestParams[i]

\* C26: in _testMethod of src/lib/index.js a response with the expected
\* status whose body fails the schema adds one to fails and leaves passes
\* unchanged.
C26_SchemaFailureCountedOnce ==
    [][(/\ variant = "lib"
        /\ pc = "inflight"
        /\ HasSchema(request)
        /\ outcome' = "invalid"
        /\ request' = NoRequest) =>
            /\ _testFails' = _testFails + 1
            /\ _testPasses' = _testPasses]_vars

\* C27: in _testMethod of src/lib/index.js skipping a disabled endpoint
\* method invokes no parameter handler and no security handler.
C27_SkipInvokesNothing ==
    [][(variant = "lib" /\ skipped' # skipped) => calls' = calls]_vars
\* the handler invocations a step adds
NewCalls == SubSeq(calls', Len(calls) + 1, Len(calls'))

\* the declared path and query parameters of a method that are named `key`
UrlParamsNamed(metadata, key) ==
    {i \in 1..Len(metadata.parameters) :
        /\ metadata.parameters[i].in \in {"path", "query"}
        /\ metadata.parameters[i].name = key}

\* a registered security handler applies to the method
SecurityApplies(metadata) ==
    /\ _security # <<>>
    /\ IF Len(metadata.security) > 0
       THEN \E i \in 1..Len(_security) :
               Has(metadata.security[1], _security[i].key)
       ELSE options.forceAuthorizationHeader

\* the handler results a url holds
HandledIn(url) == {url[i] : i \in {j \in 1..Len(url) : url[j].kind = "handler"}}

\* C22: nothing is cached.  While a test case of src/unnamed/part_001 is
\* built, every declared path or query parameter with a registered handler
\* causes exactly one invocation of that handler and the security handler
\* that applies is invoked exactly once; no two requests hold the result of
\* the same invocation.
C22_NoCaching ==
    /\ [](\A a, b \in 1..Len(dispatched) :
            a # b => HandledIn(dispatched[a].url) \cap HandledIn(dispatched[b].url) = {})
    /\ [][(/\ variant = "smoke"
            /\ pc = "case"
            /\ pc' \in {"inflight", "rejected"}) =>
              /\ \A k \in 1..Len(_requestParams) :
                    Cardinality({i \in 1..Len(NewCalls) :
                        /\ ForUrl(NewCalls[i])
                        /\ NewCalls[i].key = _requestParams[k]})
                      = Cardinality(UrlParamsNamed(Current.metadata,
                                                   _requestParams[k]))
              /\ Cardinality({i \in 1..Len(NewCalls) :
                        NewCalls[i].kind = "security"})
                      = (IF SecurityApplies(Current.metadata) THEN 1 ELSE 0)]_vars

\* C22 witness: the two cases of GET /widgets/{id} were dispatched with the
\* results of the first and of the second invocation of the handler of id,
\* and the security handler was invoked for each
C22_Witness ==
    /\ variant = "smoke"
    /\ Len(dispatched) >= 2
    /\ dispatched[1].run = dispatched[2].run
    /\ Handled("id", 1) \in HandledIn(dispatched[1].url)
    /\ Handled("id", 2) \in HandledIn(dispatched[2].url)
    /\ Invocations(calls, "security", "token_auth") = 2

\* C23: the 'unhandledRejection' listener of src/unnamed/part_001: signalled
\* while a request is in flight, the case is rejected, runTests rejects and
\* no request is dispatched; signalled when no case was ever dispatched, the
\* process exits; a rejected run dispatches nothing more and an exited process
\* does nothing more.
C23_SafetyNet ==
    /\ [][(rejections' # rejections) =>
            /\ request # NoRequest =>
                  /\ pc' = "rejected"
                  /\ Last(returned').how = "rejected"
                  /\ Last(returned').run = runNo
                  /\ Len(returned') = Len(returned) + 1
                  /\ dispatched' = dispatched
            /\ dispatched = <<>> => pc' = "exited"]_vars
    /\ [][(pc \in {"rejected", "exited"}) =>
            /\ dispatched' = dispatched
            /\ pc' # pc => (pc = "rejected" /\ (pc' = "exited" \/ runNo' = runNo + 1))]_vars

\* C23 witness: the safety net rejected the case whose request was in flight
\* (a host that accepts the listener of the first case); cases were left
C23_Witness ==
    /\ variant = "smoke"
    /\ rejections = 1
    /\ pc = "rejected"
    /\ orphans = <<Last(dispatched)>>
    /\ Last(returned).how = "rejected"
    /\ HasLaterCase

\* C28: in _testCase of src/unnamed/part_001, a case whose url, headers and
\* body are built without error (no security handler, no overlay) registers
\* its listener of 'uncaughtException' without failing and is dispatched,
\* and the listener registered is the reject of the promise of that case.
C28_ListenerIsOwnReject ==
    [][(/\ variant = "smoke"
        /\ pc = "case"
        /\ _security = <<>>
        /\ ~options.setParamsInBody
        /\ ~IsDisabled(Current.method, Current.template)
        /\ pc' # pc
        /\ rejections' = rejections) =>
            /\ pc' = "inflight"
            /\ Len(listeners') = Len(listeners) + 1
            /\ Last(listeners') = request'.serial]_vars
====
